---- MODULE Spec2Model ----
(***************************************************************************)
(* The configuration wizard of the garbage_collection integration          *)
(* (custom_components/garbage_collection/config_flow.py): the shared step  *)
(* controller GarbageCollectionShared, the two drivers                     *)
(* GarbageCollectionFlowHandler and OptionsFlowHandler, and the value      *)
(* transcoders.  The schema registry (config_definition) and the frequency *)
(* groups (const) are modelled from the specification.                     *)
(***************************************************************************)
EXTENDS Integers, Sequences, FiniteSets, TLC

VARIABLES
    flow,          \* "config" (GarbageCollectionFlowHandler) or "options" (OptionsFlowHandler)
    config_entry,  \* OptionsFlowHandler.config_entry.data (the empty map in a config flow)
    import_,       \* GarbageCollectionFlowHandler._import
    data,          \* GarbageCollectionShared._data
    name,          \* GarbageCollectionShared.name
    errors,        \* GarbageCollectionShared.errors
    data_schema,   \* GarbageCollectionShared.data_schema: field -> default shown
    defaults,      \* config_definition.defaults, the process-wide default storage
    pc,            \* "start", the step_id of the form shown, "created" or "raised"
    entry,         \* what async_create_entry was given, or NoEntry
    calls,         \* the step operations run by the last handler, in order
    handled,       \* how many handler invocations the session has had
    advanced,      \* the steps that advanced in the session so far, in
                   \* order, each with the frequency and the name it left
    others,        \* how many operations of another session have interleaved
    solo,          \* what the session has left if it runs alone, on storage
                   \* no other session writes
    transcoding,   \* a call of days_to_list or weekdays_to_list on a field
                   \* map: the function, the map given and the map left
    answered       \* the form the last handler invocation answered ("start"
                   \* when it opened the session), "none" before the first

vars == <<flow, config_entry, import_, data, name, errors, data_schema,
          defaults, pc, entry, calls, handled, advanced, others, solo,
          transcoding, answered>>

----------------------------------------------------------------------------
(* Values.  Python values are tagged, so that a string and the list it is  *)
(* transcoded to are different values.  A string is a sequence of symbols: *)
(* a symbol is a separator (comma, blank, quote) or a chunk of text that   *)
(* holds no separator.                                                     *)

Str(s) == [t |-> "str", v |-> s]
Lst(l) == [t |-> "list", v |-> l]
Bool(b) == [t |-> "bool", v |-> b]
None == [t |-> "none", v |-> <<>>]
NoDefault == [t |-> "undefined", v |-> <<>>]

EmptyMap == [k \in {} |-> None]

\* Python truthiness of a value (if src[key]: ...)
Truthy(x) == IF x.t = "bool" THEN x.v ELSE IF x.t \in {"str", "list"} THEN x.v # <<>> ELSE FALSE

\* dict.update
Upd(m, u) == [k \in DOMAIN m \cup DOMAIN u |-> IF k \in DOMAIN u THEN u[k] ELSE m[k]]

\* del m[k] for every k of K
Del(m, K) == [k \in DOMAIN m \ K |-> m[k]]

\* A handler argument: a map that was passed, or None
Given(m) == [given |-> TRUE, m |-> m]
NotGiven == [given |-> FALSE, m |-> EmptyMap]

----------------------------------------------------------------------------
(* Field names and frequency groups (const.py, homeassistant.const)        *)

CONF_NAME == "name"
CONF_ENTITIES == "entities"
CONF_FREQUENCY == "frequency"
CONF_ICON_NORMAL == "icon_normal"
CONF_ICON_TODAY == "icon_today"
CONF_ICON_TOMORROW == "icon_tomorrow"
CONF_EXPIRE_AFTER == "expire_after"
CONF_INCLUDE_DATES == "include_dates"
CONF_EXCLUDE_DATES == "exclude_dates"
CONF_FIRST_DATE == "first_date"
CONF_DATE == "date"
CONF_COLLECTION_DAYS == "collection_days"
CONF_FORCE_WEEK_NUMBERS == "force_week_numbers"
CONF_WEEK_ORDER_NUMBER == "week_order_number"
CONF_WEEKDAY_ORDER_NUMBER == "weekday_order_number"
CONF_HOLIDAY_POP_NAMED == "holiday_pop_named"
UNIQUE_ID == "unique_id"

WEEKDAYS == <<"mon", "tue", "wed", "thu", "fri", "sat", "sun">>

ANNUAL_FREQUENCY == {Str(<<"annual">>)}
GROUP_FREQUENCY == {Str(<<"group">>)}
ANNUAL_GROUP_FREQUENCY == {Str(<<"annual">>), Str(<<"group">>)}
DAILY_BLANK_FREQUENCY == {Str(<<"blank">>), Str(<<"every-n-days">>)}
MONTHLY_FREQUENCY == {Str(<<"monthly">>)}
WEEKLY_FREQUENCY == {Str(<<"weekly">>)}
FREQUENCY_OPTIONS ==
    ANNUAL_GROUP_FREQUENCY \cup DAILY_BLANK_FREQUENCY \cup MONTHLY_FREQUENCY
        \cup WEEKLY_FREQUENCY

----------------------------------------------------------------------------
(* Value transcoders                                                       *)

StripChars == {"'", "\"", " "}

RECURSIVE StripLeft(_)
StripLeft(s) ==
    IF s # <<>> /\ Head(s) \in StripChars THEN StripLeft(Tail(s)) ELSE s

RECURSIVE StripRight(_)
StripRight(s) ==
    IF s # <<>> /\ s[Len(s)] \in StripChars
    THEN StripRight(SubSeq(s, 1, Len(s) - 1))
    ELSE s

\* x.strip("'\" ")
Strip(s) == StripRight(StripLeft(s))

\* string.split(","): the tokens between the commas, empty ones included
RECURSIVE Split(_, _, _)
Split(s, cur, acc) ==
    IF s = <<>> THEN Append(acc, cur)
    ELSE IF Head(s) = "," THEN Split(Tail(s), <<>>, Append(acc, cur))
    ELSE Split(Tail(s), Append(cur, Head(s)), acc)

string_to_list(x) ==
    IF x.t = "list" THEN x
    ELSE IF x.t = "none" \/ x = Str(<<>>) THEN Lst(<<>>)
    ELSE LET toks == Split(x.v, <<>>, <<>>)
         IN Lst([i \in 1..Len(toks) |-> Strip(toks[i])])

\* Chunks datetime.strptime accepts as "%Y-%m-%d" and as "%m/%d"
DateChunks == {"2020-01-01"}
MonthDayChunks == {"12/25"}

is_month_day(x) == x.t = "str" /\ Len(x.v) = 1 /\ x.v[1] \in MonthDayChunks

\* is_date of one list element (a string, as a sequence of symbols)
is_date(tok) == tok = <<>> \/ (Len(tok) = 1 /\ tok[1] \in DateChunks)

is_dates(x) ==
    x.t = "list" /\ (x.v = <<>> \/ \A i \in 1..Len(x.v) : is_date(x.v[i]))

DayKey(day) == "collection_days_" \o day
OrdKey(prefix, i) == prefix \o "_" \o ToString(i)

DayKeys == {DayKey(WEEKDAYS[i]) : i \in 1..Len(WEEKDAYS)}
OrdKeys(prefix) == {OrdKey(prefix, i) : i \in 1..5}

\* The for loop of days_to_list from position i: the list built so far
RECURSIVE DaysLoop(_, _, _)
DaysLoop(src, i, acc) ==
    IF i > Len(WEEKDAYS) THEN acc
    ELSE DaysLoop(src, i + 1,
                  IF Truthy(src[DayKey(WEEKDAYS[i])])
                  THEN Append(acc, WEEKDAYS[i]) ELSE acc)

\* days_to_list(src): the map afterwards, or a KeyError on a missing flag
days_to_list(src) ==
    IF CONF_COLLECTION_DAYS \in DOMAIN src THEN [raised |-> FALSE, m |-> src]
    ELSE IF ~(DayKeys \subseteq DOMAIN src) THEN [raised |-> TRUE, m |-> src]
    ELSE [raised |-> FALSE,
          m |-> Upd(Del(src, DayKeys),
                    [k \in {CONF_COLLECTION_DAYS} |-> Lst(DaysLoop(src, 1, <<>>))])]

RECURSIVE WeekdaysLoop(_, _, _, _)
WeekdaysLoop(src, prefix, i, acc) ==
    IF i >= 5 THEN acc
    ELSE WeekdaysLoop(src, prefix, i + 1,
                      IF Truthy(src[OrdKey(prefix, i + 1)])
                      THEN Append(acc, i + 1) ELSE acc)

\* A variant of weekdays_to_list: the list holds the loop index i, not i + 1
weekdays_to_list_from_zero(src, prefix) ==
    IF prefix \in DOMAIN src THEN [raised |-> FALSE, m |-> src]
    ELSE IF ~(OrdKeys(prefix) \subseteq DOMAIN src) THEN [raised |-> TRUE, m |-> src]
    ELSE [raised |-> FALSE,
          m |-> Upd(Del(src, OrdKeys(prefix)),
                    [k \in {prefix} |->
                        Lst([j \in 1..Len(WeekdaysLoop(src, prefix, 0, <<>>)) |->
                               WeekdaysLoop(src, prefix, 0, <<>>)[j] - 1])])]

\* weekdays_to_list(src, prefix)
weekdays_to_list(src, prefix) ==
    IF prefix \in DOMAIN src THEN [raised |-> FALSE, m |-> src]
    ELSE IF ~(OrdKeys(prefix) \subseteq DOMAIN src) THEN [raised |-> TRUE, m |-> src]
    ELSE [raised |-> FALSE,
          m |-> Upd(Del(src, OrdKeys(prefix)),
                    [k \in {prefix} |-> Lst(WeekdaysLoop(src, prefix, 0, <<>>))])]

\* x in a list default (day in config_definition.defaults[...])
InList(x, l) == l.t = "list" /\ \E i \in 1..Len(l.v) : l.v[i] = x

----------------------------------------------------------------------------
(* The schema definition registry (config_definition): one entry per       *)
(* field, with its step and the frequencies it applies to.                 *)

OptionKeys ==
    {CONF_NAME, CONF_FREQUENCY, CONF_ICON_NORMAL, CONF_ICON_TODAY,
     CONF_ICON_TOMORROW, CONF_EXPIRE_AFTER, CONF_INCLUDE_DATES,
     CONF_EXCLUDE_DATES, CONF_DATE, CONF_ENTITIES, CONF_COLLECTION_DAYS,
     CONF_WEEKDAY_ORDER_NUMBER, CONF_WEEK_ORDER_NUMBER, CONF_HOLIDAY_POP_NAMED}

Step1Keys ==
    {CONF_NAME, CONF_FREQUENCY, CONF_ICON_NORMAL, CONF_ICON_TODAY,
     CONF_ICON_TOMORROW, CONF_EXPIRE_AFTER, CONF_INCLUDE_DATES,
     CONF_EXCLUDE_DATES}

\* options[key]["step"]
OptionStep(k) ==
    IF k \in Step1Keys THEN 1
    ELSE IF k \in {CONF_DATE, CONF_ENTITIES} THEN 2
    ELSE IF k = CONF_COLLECTION_DAYS THEN 3
    ELSE 4

\* options[key]["valid_for"]: the frequencies the field applies to
OptionValidFor(k) ==
    IF k \in Step1Keys THEN FREQUENCY_OPTIONS
    ELSE IF k = CONF_DATE THEN ANNUAL_FREQUENCY
    ELSE IF k = CONF_ENTITIES THEN GROUP_FREQUENCY
    ELSE IF k = CONF_COLLECTION_DAYS
         THEN FREQUENCY_OPTIONS \ (ANNUAL_GROUP_FREQUENCY \cup DAILY_BLANK_FREQUENCY)
    ELSE IF k \in {CONF_WEEKDAY_ORDER_NUMBER, CONF_WEEK_ORDER_NUMBER}
         THEN MONTHLY_FREQUENCY
    ELSE FREQUENCY_OPTIONS \ ANNUAL_GROUP_FREQUENCY

\* The fields a ruleset or a display schema of a step holds; valid_for is a
\* frequency or None (no filtering)
StepFields(step, valid_for) ==
    {k \in OptionKeys :
        /\ OptionStep(k) = step
        /\ (valid_for = None \/ valid_for \in OptionValidFor(k))}

\* Fields a ruleset requires to be present
RequiredKeys == {CONF_NAME, CONF_FREQUENCY, CONF_DATE, CONF_ENTITIES}

IconChunks == {"mdi:trash"}
TimeChunks == {"23:59"}
EntityChunks == {"sensor.a", "sensor.b"}

IsChunkOf(x, S) == x.t = "str" /\ Len(x.v) = 1 /\ x.v[1] \in S

\* Whether the validator of field k rejects the value x
Rejects(k, x) ==
    IF k = CONF_NAME THEN x.t # "str"
    ELSE IF k = CONF_FREQUENCY THEN x \notin FREQUENCY_OPTIONS
    ELSE IF k \in {CONF_ICON_NORMAL, CONF_ICON_TODAY, CONF_ICON_TOMORROW}
         THEN ~IsChunkOf(x, IconChunks)
    ELSE IF k = CONF_EXPIRE_AFTER THEN ~IsChunkOf(x, TimeChunks)
    ELSE IF k \in {CONF_INCLUDE_DATES, CONF_EXCLUDE_DATES} THEN ~is_dates(x)
    ELSE IF k = CONF_DATE THEN ~is_month_day(x)
    ELSE IF k = CONF_ENTITIES
         THEN \/ x.t \notin {"str", "list"}
              \/ LET l == string_to_list(x).v
                 IN \/ l = <<>>
                    \/ \E i \in 1..Len(l) :
                          ~(Len(l[i]) = 1 /\ l[i][1] \in EntityChunks)
    ELSE IF k = CONF_COLLECTION_DAYS
         THEN ~(x.t = "list" /\ \A i \in 1..Len(x.v) :
                                  \E j \in 1..Len(WEEKDAYS) : x.v[i] = WEEKDAYS[j])
    ELSE IF k \in {CONF_WEEKDAY_ORDER_NUMBER, CONF_WEEK_ORDER_NUMBER}
         THEN ~(x.t = "list" /\ \A i \in 1..Len(x.v) : x.v[i] \in 1..5)
    ELSE x.t # "list"

\* compile_schema(step, valid_for) applied to input with extra keys allowed:
\* the fields whose check fails
Failing(keys, input) ==
    {k \in keys :
        \/ k \in DOMAIN input /\ Rejects(k, input[k])
        \/ k \notin DOMAIN input /\ k \in RequiredKeys}

\* set_defaults(step, values) on default storage st
set_defaults(st, step, values) ==
    Upd(st, [k \in {f \in DOMAIN values : f \in OptionKeys /\ OptionStep(f) = step}
                |-> values[k]])

\* reset_defaults()
reset_defaults == EmptyMap

\* ",".join(list) of strings held as symbol sequences
RECURSIVE Join(_)
Join(l) ==
    IF l = <<>> THEN <<>>
    ELSE IF Len(l) = 1 THEN l[1]
    ELSE l[1] \o <<",">> \o Join(Tail(l))

\* join_list(field) on default storage st
join_list(st, k) ==
    IF k \in DOMAIN st /\ st[k].t = "list"
    THEN [st EXCEPT ![k] = Str(Join(st[k].v))]
    ELSE st

\* compile_config_flow(step, valid_for): field -> default drawn from storage
compile_config_flow(st, step, valid_for) ==
    [k \in StepFields(step, valid_for) |->
        IF k \in DOMAIN st THEN st[k] ELSE NoDefault]

\* cv.boolean
TrueWords == {<<"1">>, <<"true">>, <<"yes">>, <<"on">>, <<"enable">>}
FalseWords == {<<"0">>, <<"false">>, <<"no">>, <<"off">>, <<"disable">>}

BooleanRejects(x) ==
    ~(x.t = "bool" \/ (x.t = "str" /\ x.v \in TrueWords \cup FalseWords))

BooleanCoerce(x) == IF x.t = "bool" THEN x ELSE Bool(x.v \in TrueWords)

\* list_to_days(data_schema) with default storage st
list_to_days(schema, st) ==
    Upd([k \in DayKeys |->
            Bool(/\ CONF_COLLECTION_DAYS \in DOMAIN st
                 /\ \E i \in 1..Len(WEEKDAYS) :
                       /\ k = DayKey(WEEKDAYS[i])
                       /\ InList(WEEKDAYS[i], st[CONF_COLLECTION_DAYS]))],
        Del(schema, {CONF_COLLECTION_DAYS}))

\* list_to_weekdays(data_schema, prefix) with default storage st
list_to_weekdays(schema, prefix, st) ==
    Upd([k \in OrdKeys(prefix) |->
            Bool(/\ prefix \in DOMAIN st
                 /\ \E i \in 1..5 : k = OrdKey(prefix, i) /\ InList(i, st[prefix]))],
        Del(schema, {CONF_WEEKDAY_ORDER_NUMBER, CONF_WEEK_ORDER_NUMBER}))

----------------------------------------------------------------------------
(* The step controller, GarbageCollectionShared.  A step operation maps a  *)
(* controller state s = [data, name, errors, schema, defaults, calls] to   *)
(* the state it leaves, with one entry appended to calls: what it was      *)
(* given, what it returned ("advanced", "not_advanced", or "raised" for an *)
(* exception that leaves the operation) and what it left behind.           *)

\* A variant of BaseError: the error is filed under its own kind, not "base"
BaseErrorPerKind(kind) == [k \in {kind} |-> kind]

\* self.errors["base"] = kind
BaseError(kind) == [k \in {"base"} |-> kind]

Logged(s0, s1, step, ui, used, dflt, ret, named, validated) ==
    [s1 EXCEPT !.calls = Append(@,
        [step |-> step, input |-> ui, used |-> used, dflt |-> dflt.given,
         dfltm |-> dflt.m,
         ret |-> ret, errors |-> s1.errors, named |-> named,
         validated |-> validated,
         before |-> [data |-> s0.data, name |-> s0.name],
         after |-> [data |-> s1.data, name |-> s1.name],
         defaults |-> s1.defaults, schema |-> s1.schema])]

\* A variant of update_data: the stored defaults of the step are merged into
\* the record below the input
update_data_over_defaults(s, user_input, step) ==
    LET d1 == Upd(Upd(s.data, set_defaults(EmptyMap, step, s.defaults)), user_input)
    IN [s EXCEPT !.data = Del(d1, {CONF_NAME}),
                 !.name = IF CONF_NAME \in DOMAIN d1 THEN d1[CONF_NAME] ELSE s.name]

\* update_data(user_input, step): the record and the name afterwards
update_data(s, user_input, step) ==
    LET d1 == Upd(s.data, user_input)
        items == {k \in OptionKeys : OptionStep(k) = step}
        d2 == Del(d1, {k \in items :
                          /\ k \in DOMAIN d1
                          /\ (k \notin DOMAIN user_input \/ user_input[k] = Str(<<>>))})
    IN [s EXCEPT !.data = Del(d2, {CONF_NAME}),
                 !.name = IF CONF_NAME \in DOMAIN d2 THEN d2[CONF_NAME] ELSE s.name]

\* The frequency property: None when the record has none
frequency(d) == IF CONF_FREQUENCY \in DOMAIN d THEN d[CONF_FREQUENCY] ELSE None

\* Step 1: user_input after string_to_list of its two date lists (in place)
Step1Input(m) ==
    [k \in DOMAIN m |->
        IF k \in {CONF_INCLUDE_DATES, CONF_EXCLUDE_DATES}
        THEN string_to_list(m[k]) ELSE m[k]]

\* Step 1: the ruleset; the name is not validated when defaults are given
Step1Validation(dflt) ==
    IF dflt.given THEN StepFields(1, None) \ {CONF_NAME} ELSE StepFields(1, None)

Step1Failing(ui, dflt) ==
    IF ui.given THEN Failing(Step1Validation(dflt), Step1Input(ui.m)) ELSE {}

\* A variant of Step1ErrorKind: the icon fields are looked for first
Step1ErrorKindIconFirst(named) ==
    IF named \cap {CONF_ICON_NORMAL, CONF_ICON_TODAY, CONF_ICON_TOMORROW} # {}
    THEN "icon"
    ELSE IF named \cap {CONF_INCLUDE_DATES, CONF_EXCLUDE_DATES, CONF_FIRST_DATE} # {}
    THEN "date"
    ELSE IF CONF_EXPIRE_AFTER \in named THEN "time"
    ELSE "value"

\* Step 1: the kind of a failure whose text names the fields of `named`
Step1ErrorKind(named) ==
    IF named \cap {CONF_INCLUDE_DATES, CONF_EXCLUDE_DATES, CONF_FIRST_DATE} # {}
    THEN "date"
    ELSE IF named \cap {CONF_ICON_NORMAL, CONF_ICON_TODAY, CONF_ICON_TOMORROW} # {}
    THEN "icon"
    ELSE IF CONF_EXPIRE_AFTER \in named THEN "time"
    ELSE "value"

\* Step 1: the display schema; the name is not shown when defaults are given
Step1Schema(st, dflt) ==
    IF dflt.given
    THEN Del(compile_config_flow(st, 1, None), {CONF_NAME})
    ELSE compile_config_flow(st, 1, None)

\* step1_user_init(user_input, defaults); named: the fields the text of the
\* validation failure names (empty when nothing fails)
step1_user_init(s, ui, dflt, named) ==
    LET s0 == [s EXCEPT !.errors = EmptyMap]
        used == Step1Input(ui.m)
    IN IF ui.given
       THEN IF Step1Failing(ui, dflt) # {}
            THEN LET st == set_defaults(s0.defaults, 1, used)
                     s1 == [s0 EXCEPT !.errors = BaseError(Step1ErrorKind(named)),
                                      !.defaults = st,
                                      !.schema = Step1Schema(st, dflt)]
                 IN Logged(s, s1, 1, ui, used, dflt, "not_advanced", named, TRUE)
            ELSE Logged(s, update_data(s0, used, 1), 1, ui, used, dflt,
                        "advanced", named, TRUE)
       ELSE LET st == IF dflt.given
                      THEN join_list(join_list(set_defaults(reset_defaults, 1, dflt.m),
                                               CONF_EXCLUDE_DATES),
                                     CONF_INCLUDE_DATES)
                      ELSE s0.defaults
                s1 == [s0 EXCEPT !.defaults = st, !.schema = Step1Schema(st, dflt)]
            IN Logged(s, s1, 1, ui, used, dflt, "not_advanced", named, FALSE)

\* user_input is not None and user_input != {}
Provided(ui) == ui.given /\ ui.m # EmptyMap

\* A variant of Step2Updates: the entities are stored as they were typed
Step2UpdatesRaw(freq, m) == m

\* Step 2: the validated input with the entities text transcoded to a list
Step2Updates(freq, m) ==
    IF freq \in GROUP_FREQUENCY
    THEN Upd(m, [k \in {CONF_ENTITIES} |-> string_to_list(m[CONF_ENTITIES])])
    ELSE m

\* A variant of step2_annual_group: the input is merged into the record
\* before it is validated
step2_annual_group_merge_first(s, ui, dflt) ==
    LET s0 == [s EXCEPT !.errors = EmptyMap, !.schema = EmptyMap]
        freq == frequency(s.data)
        failing == Failing(StepFields(2, freq), ui.m)
        kind == IF freq \in ANNUAL_FREQUENCY THEN "month_day" ELSE "entities"
        st == IF Provided(ui)
              THEN set_defaults(s0.defaults, 2, ui.m)
              ELSE IF dflt.given THEN set_defaults(s0.defaults, 2, dflt.m)
              ELSE s0.defaults
        shown == [s0 EXCEPT !.defaults = st,
                            !.schema = compile_config_flow(st, 2, freq),
                            !.errors = IF Provided(ui) THEN BaseError(kind) ELSE EmptyMap]
    IN IF Provided(ui) /\ failing = {}
       THEN Logged(s, update_data(s0, Step2Updates(freq, ui.m), 2), 2, ui, ui.m,
                   dflt, "advanced", {}, TRUE)
       ELSE IF Provided(ui)
       THEN Logged(s, update_data(shown, ui.m, 2), 2, ui, ui.m, dflt,
                   "not_advanced", {}, TRUE)
       ELSE Logged(s, shown, 2, ui, ui.m, dflt, "not_advanced", {}, FALSE)

\* step2_annual_group(user_input, defaults)
step2_annual_group(s, ui, dflt) ==
    LET s0 == [s EXCEPT !.errors = EmptyMap, !.schema = EmptyMap]
        freq == frequency(s.data)
        failing == Failing(StepFields(2, freq), ui.m)
        kind == IF freq \in ANNUAL_FREQUENCY THEN "month_day" ELSE "entities"
        updates == Step2Updates(freq, ui.m)
        st == IF Provided(ui)
              THEN set_defaults(s0.defaults, 2, ui.m)
              ELSE IF dflt.given THEN set_defaults(s0.defaults, 2, dflt.m)
              ELSE s0.defaults
        shown == [s0 EXCEPT !.defaults = st,
                            !.schema = compile_config_flow(st, 2, freq),
                            !.errors = IF Provided(ui) THEN BaseError(kind) ELSE EmptyMap]
    IN IF freq = None
       THEN Logged(s, IF Provided(ui) THEN s0 ELSE [s0 EXCEPT !.defaults = st],
                   2, ui, ui.m, dflt, "raised", {}, FALSE)
       ELSE IF Provided(ui) /\ failing = {}
       THEN IF freq \in GROUP_FREQUENCY /\ CONF_ENTITIES \notin DOMAIN ui.m
            THEN Logged(s, s0, 2, ui, ui.m, dflt, "raised", {}, TRUE)
            ELSE Logged(s, update_data(s0, updates, 2), 2, ui, ui.m, dflt,
                        "advanced", {}, TRUE)
       ELSE Logged(s, shown, 2, ui, ui.m, dflt, "not_advanced", {}, Provided(ui))

\* Step 3: the validated input: the toggle coerced, False when it is absent
Step3Validated(m, monthly) ==
    IF ~monthly THEN m
    ELSE Upd(m, [k \in {CONF_FORCE_WEEK_NUMBERS} |->
                    IF k \in DOMAIN m THEN BooleanCoerce(m[k]) ELSE Bool(FALSE)])

\* Step 3: the default of the toggle in the display schema
Step3Toggle(ui, dflt) ==
    IF ui.given /\ CONF_FORCE_WEEK_NUMBERS \in DOMAIN ui.m
    THEN ui.m[CONF_FORCE_WEEK_NUMBERS]
    ELSE Bool(dflt.given /\ CONF_WEEK_ORDER_NUMBER \in DOMAIN dflt.m)

\* Step 3: the error map after validation and the check of the day list
Step3Errors(failing, updates) ==
    IF Len(updates[CONF_COLLECTION_DAYS].v) = 0 THEN BaseError("days")
    ELSE IF failing # {} THEN BaseError("value")
    ELSE EmptyMap

\* step3_detail(user_input, defaults)
step3_detail(s, ui, dflt) ==
    LET s0 == [s EXCEPT !.errors = EmptyMap, !.schema = EmptyMap]
        freq == frequency(s.data)
        monthly == freq \in MONTHLY_FREQUENCY
        days == days_to_list(ui.m)
        failing ==
            Failing(StepFields(3, freq), days.m) \cup
            {k \in {CONF_FORCE_WEEK_NUMBERS} :
                monthly /\ k \in DOMAIN days.m /\ BooleanRejects(days.m[k])}
        updates == IF failing = {} THEN Step3Validated(days.m, monthly) ELSE days.m
        errs == Step3Errors(failing, updates)
        st == IF ~Provided(ui) /\ dflt.given
              THEN set_defaults(s0.defaults, 3, dflt.m) ELSE s0.defaults
        sch == list_to_days(compile_config_flow(st, 3, freq), st)
        shown == [s0 EXCEPT
                    !.defaults = st,
                    !.errors = IF Provided(ui) THEN errs ELSE EmptyMap,
                    !.schema = IF monthly
                               THEN Upd(sch, [k \in {CONF_FORCE_WEEK_NUMBERS} |->
                                                 Step3Toggle(ui, dflt)])
                               ELSE sch]
    IN IF Provided(ui) /\ days.raised
       THEN Logged(s, s0, 3, ui, ui.m, dflt, "raised", {}, FALSE)
       ELSE IF freq = None
       THEN Logged(s, IF Provided(ui) THEN s0 ELSE [s0 EXCEPT !.defaults = st],
                   3, ui, ui.m, dflt, "raised", {}, FALSE)
       ELSE IF Provided(ui) /\ errs = EmptyMap
       THEN Logged(s, update_data(s0, updates, 3), 3, ui, days.m, dflt,
                   "advanced", {}, TRUE)
       ELSE Logged(s, shown, 3, ui, IF Provided(ui) THEN days.m ELSE ui.m, dflt,
                   "not_advanced", {}, Provided(ui))

\* Step 4: the ordinal field the step-3 toggle stored in the record selects
Step4Prefix(d) ==
    IF Truthy(d[CONF_FORCE_WEEK_NUMBERS])
    THEN CONF_WEEK_ORDER_NUMBER ELSE CONF_WEEKDAY_ORDER_NUMBER

\* A variant of Step4Errors: an empty ordinal list is reported as step 3
\* reports an empty day list
Step4ErrorsAsDays(failing, updates, monthly, prefix) ==
    IF monthly /\ Len(updates[prefix].v) = 0 THEN BaseError("days")
    ELSE IF failing # {} THEN BaseError("value")
    ELSE EmptyMap

\* Step 4: the error map after validation and the check of the ordinal list
Step4Errors(failing, updates, monthly, prefix) ==
    IF monthly /\ Len(updates[prefix].v) = 0 THEN BaseError(prefix)
    ELSE IF failing # {} THEN BaseError("value")
    ELSE EmptyMap

\* Step 4: the record after the toggle, the unused ordinal field and the
\* name are deleted
Step4Cleanup(d) ==
    LET d1 == IF CONF_FORCE_WEEK_NUMBERS \in DOMAIN d
              THEN Del(d, {CONF_FORCE_WEEK_NUMBERS,
                           IF Truthy(d[CONF_FORCE_WEEK_NUMBERS])
                           THEN CONF_WEEKDAY_ORDER_NUMBER
                           ELSE CONF_WEEK_ORDER_NUMBER})
              ELSE d
    IN Del(d1, {CONF_NAME})

\* step4_final(user_input, defaults)
step4_final(s, ui, dflt) ==
    LET s0 == [s EXCEPT !.errors = EmptyMap, !.schema = EmptyMap]
        freq == frequency(s.data)
        monthly == freq \in MONTHLY_FREQUENCY
        prefix == Step4Prefix(s.data)
        ords == IF monthly THEN weekdays_to_list(ui.m, prefix)
                ELSE [raised |-> FALSE, m |-> ui.m]
        updates == [k \in DOMAIN ords.m |->
                       IF k = CONF_HOLIDAY_POP_NAMED
                       THEN string_to_list(ords.m[k]) ELSE ords.m[k]]
        failing == Failing(StepFields(4, freq), updates)
        errs == Step4Errors(failing, updates, monthly, prefix)
        merged == update_data(s0, updates, 4)
        st == IF ~Provided(ui) /\ dflt.given
              THEN join_list(set_defaults(s0.defaults, 4, dflt.m),
                             CONF_HOLIDAY_POP_NAMED)
              ELSE s0.defaults
        sch == compile_config_flow(st, 4, freq)
        shown == [s0 EXCEPT
                    !.defaults = st,
                    !.errors = IF Provided(ui) THEN errs ELSE EmptyMap,
                    !.schema = IF monthly THEN list_to_weekdays(sch, prefix, st)
                               ELSE sch]
        failed == IF Provided(ui) THEN s0 ELSE [s0 EXCEPT !.defaults = st]
    IN IF freq = None \/ (monthly /\ CONF_FORCE_WEEK_NUMBERS \notin DOMAIN s.data)
       THEN Logged(s, failed, 4, ui, ui.m, dflt, "raised", {}, FALSE)
       ELSE IF Provided(ui) /\ ords.raised
       THEN Logged(s, s0, 4, ui, ui.m, dflt, "raised", {}, FALSE)
       ELSE IF Provided(ui) /\ errs = EmptyMap
       THEN Logged(s, [merged EXCEPT !.data = Step4Cleanup(merged.data)],
                   4, ui, updates, dflt, "advanced", {}, TRUE)
       ELSE Logged(s, shown, 4, ui, IF Provided(ui) THEN updates ELSE ui.m, dflt,
                   "not_advanced", {}, Provided(ui))

----------------------------------------------------------------------------
(* The drivers.  A handler returns what it leaves: the controller state,   *)
(* the form shown (pc) and the entry handed to async_create_entry.         *)

NoEntry == [created |-> FALSE, title |-> None, data |-> EmptyMap]
Created(title, d) == [created |-> TRUE, title |-> title, data |-> d]

Ret(s) == s.calls[Len(s.calls)].ret

\* What a handler returns after its step operation left s: the entry when
\* the step advanced to the end, else the form step_id
Outcome(s, step_id, title) ==
    IF Ret(s) = "raised" THEN [s |-> s, pc |-> "raised", entry |-> NoEntry]
    ELSE IF Ret(s) = "advanced"
    THEN [s |-> s, pc |-> "created", entry |-> Created(title, s.data)]
    ELSE [s |-> s, pc |-> step_id, entry |-> NoEntry]

\* GarbageCollectionFlowHandler.async_step_annual_group
ConfigAnnualGroup(s, ui, imp) ==
    LET r == step2_annual_group(s, ui, Given(imp))
    IN Outcome(r, "annual_group", r.name)

\* GarbageCollectionFlowHandler.async_step_final
ConfigFinal(s, ui, imp) ==
    LET r == step4_final(s, ui, Given(imp))
    IN Outcome(r, "final", r.name)

\* GarbageCollectionFlowHandler.async_step_detail
ConfigDetail(s, ui, imp) ==
    LET r == step3_detail(s, ui, Given(imp))
    IN IF Ret(r) = "advanced" THEN ConfigFinal(r, Given(imp), imp)
       ELSE Outcome(r, "detail", r.name)

\* A variant of ConfigUser: the daily/blank frequencies take the detail step
ConfigUserAllDetail(s, ui, imp, named) ==
    LET r == step1_user_init(s, ui, NotGiven, named)
    IN IF Ret(r) = "advanced"
       THEN IF frequency(r.data) \in ANNUAL_GROUP_FREQUENCY
            THEN ConfigAnnualGroup(r, Given(imp), imp)
            ELSE ConfigDetail(r, Given(imp), imp)
       ELSE [s |-> r, pc |-> "user", entry |-> NoEntry]

\* GarbageCollectionFlowHandler.async_step_user
ConfigUser(s, ui, imp, named) ==
    LET r == step1_user_init(s, ui, NotGiven, named)
    IN IF Ret(r) = "advanced"
       THEN IF frequency(r.data) \in ANNUAL_GROUP_FREQUENCY
            THEN ConfigAnnualGroup(r, Given(imp), imp)
            ELSE IF frequency(r.data) \in DAILY_BLANK_FREQUENCY
            THEN ConfigFinal(r, Given(imp), imp)
            ELSE ConfigDetail(r, Given(imp), imp)
       ELSE [s |-> r, pc |-> "user", entry |-> NoEntry]

\* OptionsFlowHandler.async_step_annual_group
OptionsAnnualGroup(s, ui, ce) ==
    Outcome(step2_annual_group(s, ui, Given(ce)), "annual_group", Str(<<>>))

\* OptionsFlowHandler.async_step_final
OptionsFinal(s, ui, ce) ==
    Outcome(step4_final(s, ui, Given(ce)), "final", Str(<<>>))

\* A variant of OptionsDetail: the entry is created when step 3 advances
OptionsDetailCreates(s, ui, ce) ==
    Outcome(step3_detail(s, ui, Given(ce)), "detail", Str(<<>>))

\* OptionsFlowHandler.async_step_detail
OptionsDetail(s, ui, ce) ==
    LET r == step3_detail(s, ui, Given(ce))
    IN IF Ret(r) = "advanced" THEN OptionsFinal(r, Given(EmptyMap), ce)
       ELSE Outcome(r, "detail", Str(<<>>))

\* OptionsFlowHandler.async_step_init
OptionsInit(s, ui, ce, named) ==
    LET r == step1_user_init(s, ui, Given(ce), named)
    IN IF Ret(r) = "advanced"
       THEN IF frequency(r.data) \in ANNUAL_GROUP_FREQUENCY
            THEN OptionsAnnualGroup(r, Given(EmptyMap), ce)
            ELSE IF frequency(r.data) \in DAILY_BLANK_FREQUENCY
            THEN OptionsFinal(r, Given(EmptyMap), ce)
            ELSE OptionsDetail(r, Given(EmptyMap), ce)
       ELSE [s |-> r, pc |-> "init", entry |-> NoEntry]

----------------------------------------------------------------------------
(* Inputs: what the host hands to the handlers                             *)

\* How many field names the text of one validation failure names at most
MaxNamed == 2

\* How many handler invocations the host makes at most, those of another
\* session that interleave included
MaxHandled == 3

Weekly == Str(<<"weekly">>)
Monthly == Str(<<"monthly">>)
Annual == Str(<<"annual">>)
Group == Str(<<"group">>)
Blank == Str(<<"blank">>)

GoodDates == Str(<<"2020-01-01">>)
BadDates == Str(<<"2020-01-01", ",", " ", "tomorrow">>)
BadIcon == Str(<<"trash">>)
BadTime == Str(<<"noon">>)

Field(k, x) == [f \in {k} |-> x]

Step1Base(f) == Upd(Field(CONF_NAME, Str(<<"bin">>)), Field(CONF_FREQUENCY, f))

\* Maps submitted to step 1
Step1Maps ==
    {Step1Base(f) : f \in {Weekly, Monthly, Annual, Group, Blank}} \cup
    {Upd(Step1Base(Weekly), x) :
        x \in {Field(CONF_INCLUDE_DATES, GoodDates),
               Field(CONF_INCLUDE_DATES, BadDates),
               Upd(Field(CONF_INCLUDE_DATES, BadDates), Field(CONF_ICON_NORMAL, BadIcon)),
               Upd(Field(CONF_ICON_TODAY, BadIcon), Field(CONF_EXPIRE_AFTER, BadTime)),
               Field(CONF_EXPIRE_AFTER, BadTime),
               Field(CONF_EXCLUDE_DATES, Str(<<>>)),
               Field(CONF_FREQUENCY, Str(<<"never">>))}} \cup
    {Field(CONF_FREQUENCY, Monthly), EmptyMap}

Step1Inputs == {NotGiven} \cup {Given(m) : m \in Step1Maps}

\* The field sets one failure text can name
Reports(failing) ==
    IF failing = {} THEN {{}}
    ELSE {N \in SUBSET failing : N # {} /\ Cardinality(N) <= MaxNamed}

\* Maps submitted to step 2
Step2Maps ==
    {EmptyMap,
     Field(CONF_DATE, Str(<<"12/25">>)),
     Field(CONF_DATE, Str(<<"13/01">>)),
     Upd(Field(CONF_DATE, Str(<<"12/25">>)), Field(CONF_NAME, Str(<<"other">>))),
     Field(CONF_ENTITIES, Str(<<"'", "sensor.a", "'", ",", " ", "sensor.b">>)),
     Field(CONF_ENTITIES, Str(<<>>)),
     Field(CONF_ENTITIES, Str(<<"sensor.a", ",", "nothing">>)),
     Field(CONF_HOLIDAY_POP_NAMED, Str(<<"easter">>))}

Step2Inputs == {NotGiven} \cup {Given(m) : m \in Step2Maps}

\* The seven day flags, true for the days of S
DayFlags(S) ==
    [k \in DayKeys |-> Bool(\E i \in 1..Len(WEEKDAYS) :
                              WEEKDAYS[i] \in S /\ k = DayKey(WEEKDAYS[i]))]

\* Maps submitted to step 3
Step3Maps ==
    {Upd(DayFlags(S), x) :
        S \in {{}, {"fri"}, {"wed", "mon"}},
        x \in {EmptyMap,
               Field(CONF_FORCE_WEEK_NUMBERS, Bool(TRUE)),
               Field(CONF_FORCE_WEEK_NUMBERS, Bool(FALSE))}} \cup
    {EmptyMap,
     Upd(DayFlags({"fri"}), Field(CONF_FORCE_WEEK_NUMBERS, Str(<<"maybe">>))),
     Upd(DayFlags({"fri"}), Field(CONF_FREQUENCY, Monthly)),
     Upd(DayFlags({"mon"}), Field(CONF_FREQUENCY, Annual)),
     Del(DayFlags({"mon"}), {DayKey("sun")}),
     Field(CONF_COLLECTION_DAYS, Lst(<<"tue">>)),
     Field(CONF_COLLECTION_DAYS, Lst(<<"someday">>))}

Step3Inputs == {NotGiven} \cup {Given(m) : m \in Step3Maps}

\* The five ordinal flags of a prefix, true for the ordinals of S
OrdFlags(prefix, S) ==
    [k \in OrdKeys(prefix) |->
        Bool(\E i \in 1..5 : i \in S /\ k = OrdKey(prefix, i))]

Holidays == Field(CONF_HOLIDAY_POP_NAMED, Str(<<"easter", ",", " ", "xmas">>))

\* Maps submitted to step 4
Step4Maps ==
    {Upd(OrdFlags(p, S), x) :
        p \in {CONF_WEEK_ORDER_NUMBER, CONF_WEEKDAY_ORDER_NUMBER},
        S \in {{}, {2}, {1, 3, 5}},
        x \in {EmptyMap, Holidays}} \cup
    {Upd(OrdFlags(p, {1}), Field(CONF_FORCE_WEEK_NUMBERS, Bool(b))) :
        p \in {CONF_WEEK_ORDER_NUMBER, CONF_WEEKDAY_ORDER_NUMBER},
        b \in BOOLEAN} \cup
    {EmptyMap,
     Holidays,
     Field(CONF_HOLIDAY_POP_NAMED, Str(<<>>)),
     Field(CONF_FREQUENCY, Annual),
     Field(CONF_COLLECTION_DAYS, Lst(<<>>)),
     Upd(Field(CONF_WEEK_ORDER_NUMBER, Lst(<<2>>)),
         Field(CONF_WEEKDAY_ORDER_NUMBER, Lst(<<4>>))),
     Upd(Field(CONF_WEEK_ORDER_NUMBER, Lst(<<9>>)),
         Field(CONF_WEEKDAY_ORDER_NUMBER, Lst(<<9>>)))}

Step4Inputs == {NotGiven} \cup {Given(m) : m \in Step4Maps}

\* Flat maps of the static configuration handed to async_step_import
ImportMaps ==
    {Upd(Step1Base(Weekly), Field(CONF_COLLECTION_DAYS, Lst(<<"mon">>))),
     Upd(Step1Base(Annual), Field(CONF_DATE, Str(<<"12/25">>))),
     Upd(Step1Base(Monthly),
         Upd(Field(CONF_COLLECTION_DAYS, Lst(<<"fri">>)),
             Field(CONF_WEEKDAY_ORDER_NUMBER, Lst(<<1>>)))),
     Upd(Step1Base(Monthly),
         Upd(Field(CONF_COLLECTION_DAYS, Lst(<<"fri">>)),
             Field(CONF_WEEK_ORDER_NUMBER, Lst(<<1>>)))),
     Upd(Step1Base(Weekly), Field(CONF_INCLUDE_DATES, BadDates))}

\* Stored entries an options flow is opened on
Entries ==
    {Upd(Field(UNIQUE_ID, Str(<<"id-1">>)),
         Upd(Field(CONF_FREQUENCY, Monthly),
             Upd(Field(CONF_COLLECTION_DAYS, Lst(<<"mon">>)),
                 Upd(Field(CONF_WEEK_ORDER_NUMBER, Lst(<<1>>)),
                     Field(CONF_INCLUDE_DATES, Lst(<< <<"2020-01-01">> >>)))))),
     Upd(Field(UNIQUE_ID, Str(<<"id-2">>)),
         Upd(Field(CONF_FREQUENCY, Annual), Field(CONF_DATE, Str(<<"12/25">>))))}

\* Default storage as an earlier session of the process can leave it
LeftoverDefaults ==
    {EmptyMap,
     Upd(Field(CONF_COLLECTION_DAYS, Lst(<<"sat">>)),
         Field(CONF_ICON_NORMAL, Str(<<"mdi:trash">>)))}

----------------------------------------------------------------------------
(* The state machine                                                       *)

Controller ==
    [data |-> data, name |-> name, errors |-> errors, schema |-> data_schema,
     defaults |-> defaults, calls |-> <<>>]

\* The steps of a sequence of step operations that returned "advanced"
RECURSIVE AdvancedSteps(_)
AdvancedSteps(cs) ==
    IF cs = <<>> THEN <<>>
    ELSE IF Head(cs).ret = "advanced"
    THEN <<[step |-> Head(cs).step,
            frequency |-> frequency(Head(cs).after.data),
            name |-> Head(cs).after.name]>>
         \o AdvancedSteps(Tail(cs))
    ELSE AdvancedSteps(Tail(cs))

\* The controller of the session run alone
SoloController ==
    [data |-> solo.data, name |-> solo.name, errors |-> solo.errors,
     schema |-> solo.schema, defaults |-> solo.defaults, calls |-> <<>>]

\* What step operations returned and left in the record
Results(cs) ==
    [i \in 1..Len(cs) |->
        [step |-> cs[i].step, ret |-> cs[i].ret, errors |-> cs[i].errors,
         after |-> cs[i].after]]

\* The state a handler leaves; alone: what the same invocation leaves in the
\* session run alone
Leaves(out, alone) ==
    /\ data' = out.s.data
    /\ name' = out.s.name
    /\ errors' = out.s.errors
    /\ data_schema' = out.s.schema
    /\ defaults' = out.s.defaults
    /\ calls' = out.s.calls
    /\ pc' = out.pc
    /\ entry' = out.entry
    /\ handled + others < MaxHandled
    /\ handled' = handled + 1
    /\ others' = others
    /\ solo' = [data |-> alone.s.data, name |-> alone.s.name,
                errors |-> alone.s.errors, schema |-> alone.s.schema,
                defaults |-> alone.s.defaults, pc |-> alone.pc,
                entry |-> alone.entry, results |-> Results(alone.s.calls)]
    /\ advanced' = advanced \o AdvancedSteps(out.s.calls)
    /\ transcoding' = transcoding
    /\ answered' = pc

\* No transcoder is called on its own
NotTranscoding ==
    [fn |-> "none", prefix |-> "", input |-> EmptyMap, output |-> EmptyMap,
     done |-> FALSE]

\* GarbageCollectionFlowHandler.__init__ and OptionsFlowHandler.__init__
Init ==
    /\ transcoding = NotTranscoding
    /\ answered = "none"
    /\ flow \in {"config", "options"}
    /\ IF flow = "config"
       THEN /\ config_entry = EmptyMap
            /\ defaults = reset_defaults
            /\ data = Field(UNIQUE_ID, Str(<<"uuid4">>))
       ELSE /\ config_entry \in Entries
            /\ defaults \in LeftoverDefaults
            /\ data = Field(UNIQUE_ID, config_entry[UNIQUE_ID])
    /\ import_ = EmptyMap
    /\ name = None
    /\ errors = EmptyMap
    /\ data_schema = EmptyMap
    /\ pc = "start"
    /\ entry = NoEntry
    /\ calls = <<>>
    /\ handled = 0
    /\ advanced = <<>>
    /\ others = 0
    /\ solo = [data |-> data, name |-> name, errors |-> errors,
               schema |-> data_schema, defaults |-> defaults, pc |-> pc,
               entry |-> entry, results |-> <<>>]

async_step_user ==
    /\ flow = "config"
    /\ pc \in {"start", "user"}
    /\ \E ui \in Step1Inputs : \E named \in Reports(Step1Failing(ui, NotGiven)) :
          Leaves(ConfigUser(Controller, ui, import_, named),
                 ConfigUser(SoloController, ui, import_, named))
    /\ UNCHANGED <<flow, config_entry, import_>>

async_step_import ==
    /\ flow = "config"
    /\ pc = "start"
    /\ \E m \in ImportMaps : \E named \in Reports(Step1Failing(Given(m), NotGiven)) :
          /\ import_' = Step1Input(m)
          /\ Leaves(ConfigUser(Controller, Given(m), Step1Input(m), named),
                 ConfigUser(SoloController, Given(m), Step1Input(m), named))
    /\ UNCHANGED <<flow, config_entry>>

async_step_annual_group ==
    /\ flow = "config"
    /\ pc = "annual_group"
    /\ \E ui \in Step2Inputs : Leaves(ConfigAnnualGroup(Controller, ui, import_),
                 ConfigAnnualGroup(SoloController, ui, import_))
    /\ UNCHANGED <<flow, config_entry, import_>>

async_step_detail ==
    /\ flow = "config"
    /\ pc = "detail"
    /\ \E ui \in Step3Inputs : Leaves(ConfigDetail(Controller, ui, import_),
                 ConfigDetail(SoloController, ui, import_))
    /\ UNCHANGED <<flow, config_entry, import_>>

async_step_final ==
    /\ flow = "config"
    /\ pc = "final"
    /\ \E ui \in Step4Inputs : Leaves(ConfigFinal(Controller, ui, import_),
                 ConfigFinal(SoloController, ui, import_))
    /\ UNCHANGED <<flow, config_entry, import_>>

options_async_step_init ==
    /\ flow = "options"
    /\ pc \in {"start", "init"}
    /\ \E ui \in Step1Inputs :
       \E named \in Reports(Step1Failing(ui, Given(config_entry))) :
          Leaves(OptionsInit(Controller, ui, config_entry, named),
                 OptionsInit(SoloController, ui, config_entry, named))
    /\ UNCHANGED <<flow, config_entry, import_>>

options_async_step_annual_group ==
    /\ flow = "options"
    /\ pc = "annual_group"
    /\ \E ui \in Step2Inputs : Leaves(OptionsAnnualGroup(Controller, ui, config_entry),
                 OptionsAnnualGroup(SoloController, ui, config_entry))
    /\ UNCHANGED <<flow, config_entry, import_>>

options_async_step_detail ==
    /\ flow = "options"
    /\ pc = "detail"
    /\ \E ui \in Step3Inputs : Leaves(OptionsDetail(Controller, ui, config_entry),
                 OptionsDetail(SoloController, ui, config_entry))
    /\ UNCHANGED <<flow, config_entry, import_>>

options_async_step_final ==
    /\ flow = "options"
    /\ pc = "final"
    /\ \E ui \in Step4Inputs : Leaves(OptionsFinal(Controller, ui, config_entry),
                 OptionsFinal(SoloController, ui, config_entry))
    /\ UNCHANGED <<flow, config_entry, import_>>

Next ==
    \/ async_step_user
    \/ async_step_import
    \/ async_step_annual_group
    \/ async_step_detail
    \/ async_step_final
    \/ options_async_step_init
    \/ options_async_step_annual_group
    \/ options_async_step_detail
    \/ options_async_step_final

Spec == Init /\ [][Next]_vars

----------------------------------------------------------------------------
(* Two sessions.  Each handler owns its GarbageCollectionShared; the       *)
(* storage of config_definition is the one object they both reach.  The    *)
(* other session is seen through what its operations leave in the storage. *)

\* The controller of another session, over the shared storage st
OtherController(st) ==
    [data |-> Upd(Field(UNIQUE_ID, Str(<<"id-3">>)), Field(CONF_FREQUENCY, Monthly)),
     name |-> None, errors |-> EmptyMap, schema |-> EmptyMap,
     defaults |-> st, calls |-> <<>>]

\* The storage an operation of another session leaves: its construction
\* as an initial setup, a step 1 that rejects an icon, a step 3 that shows
\* the day list of a stored entry
OtherWrites(st) ==
    {reset_defaults,
     step1_user_init(OtherController(st),
                     Given(Upd(Step1Base(Weekly), Field(CONF_ICON_NORMAL, BadIcon))),
                     NotGiven, {CONF_ICON_NORMAL}).defaults,
     step3_detail(OtherController(st), NotGiven,
                  Given(Field(CONF_COLLECTION_DAYS, Lst(<<"sun">>)))).defaults}

other_session ==
    /\ pc \notin {"created", "raised"}
    /\ handled + others < MaxHandled
    /\ \E st \in OtherWrites(defaults) \ {defaults} : defaults' = st
    /\ others' = others + 1
    /\ UNCHANGED <<flow, config_entry, import_, data, name, errors, data_schema,
                   pc, entry, calls, handled, advanced, solo, transcoding,
                   answered>>

NextTwoSessions ==
    \/ async_step_user
    \/ async_step_import
    \/ async_step_annual_group
    \/ async_step_detail
    \/ async_step_final
    \/ options_async_step_init
    \/ options_async_step_annual_group
    \/ options_async_step_detail
    \/ options_async_step_final
    \/ other_session

\* The storage is cleared when the first of the two sessions starts: what
\* an earlier session can leave is what the other session writes
InitTwoSessions == Init /\ defaults = reset_defaults

SpecTwoSessions == InitTwoSessions /\ [][NextTwoSessions]_vars

----------------------------------------------------------------------------
(* The transcoders on their own: days_to_list and weekdays_to_list are     *)
(* called on a field map that holds every flag, or holds the list already. *)

WeekdaySet == {WEEKDAYS[i] : i \in 1..Len(WEEKDAYS)}

\* Field maps days_to_list is called on: every assignment of the day flags,
\* alone or beside another field, and maps that hold the list already
DayMaps ==
    {DayFlags(S) : S \in SUBSET WeekdaySet} \cup
    {Upd(DayFlags(S), Holidays) : S \in {{}, {"wed", "mon"}, WeekdaySet}} \cup
    {Field(CONF_COLLECTION_DAYS, Lst(<<"tue">>)),
     Upd(DayFlags({"fri"}), Field(CONF_COLLECTION_DAYS, Lst(<<"tue">>))),
     Upd(DayFlags({"fri"}), Field(CONF_COLLECTION_DAYS, Lst(<<>>)))}

\* Field maps weekdays_to_list is called on with a prefix
OrdMaps(prefix) ==
    {OrdFlags(prefix, S) : S \in SUBSET (1..5)} \cup
    {Upd(OrdFlags(prefix, S), Holidays) : S \in {{}, {1, 3, 5}}} \cup
    {Field(prefix, Lst(<<2>>)),
     Upd(OrdFlags(prefix, {1}), Field(prefix, Lst(<<2>>)))}

InitTranscoders ==
    /\ flow = "config"
    /\ answered = "none"
    /\ config_entry = EmptyMap
    /\ defaults = reset_defaults
    /\ data = Field(UNIQUE_ID, Str(<<"uuid4">>))
    /\ import_ = EmptyMap
    /\ name = None
    /\ errors = EmptyMap
    /\ data_schema = EmptyMap
    /\ pc = "start"
    /\ entry = NoEntry
    /\ calls = <<>>
    /\ handled = 0
    /\ advanced = <<>>
    /\ others = 0
    /\ solo = [data |-> data, name |-> name, errors |-> errors,
               schema |-> data_schema, defaults |-> defaults, pc |-> pc,
               entry |-> entry, results |-> <<>>]
    /\ \/ \E m \in DayMaps :
             transcoding = [fn |-> "days_to_list", prefix |-> CONF_COLLECTION_DAYS,
                            input |-> m, output |-> m, done |-> FALSE]
       \/ \E p \in {CONF_WEEK_ORDER_NUMBER, CONF_WEEKDAY_ORDER_NUMBER} :
          \E m \in OrdMaps(p) :
             transcoding = [fn |-> "weekdays_to_list", prefix |-> p,
                            input |-> m, output |-> m, done |-> FALSE]

call_days_to_list ==
    /\ transcoding.fn = "days_to_list"
    /\ ~transcoding.done
    /\ ~days_to_list(transcoding.input).raised
    /\ transcoding' = [transcoding EXCEPT
                          !.output = days_to_list(transcoding.input).m,
                          !.done = TRUE]
    /\ UNCHANGED <<flow, config_entry, import_, data, name, errors, data_schema,
                   defaults, pc, entry, calls, handled, advanced, others, solo,
                   answered>>

call_weekdays_to_list ==
    /\ transcoding.fn = "weekdays_to_list"
    /\ ~transcoding.done
    /\ ~weekdays_to_list(transcoding.input, transcoding.prefix).raised
    /\ transcoding' = [transcoding EXCEPT
                          !.output = weekdays_to_list(transcoding.input,
                                                      transcoding.prefix).m,
                          !.done = TRUE]
    /\ UNCHANGED <<flow, config_entry, import_, data, name, errors, data_schema,
                   defaults, pc, entry, calls, handled, advanced, others, solo,
                   answered>>

NextTranscoders ==
    \/ call_days_to_list
    \/ call_weekdays_to_list

SpecTranscoders == InitTranscoders /\ [][NextTranscoders]_vars

----------------------------------------------------------------------------
(* Properties.  calls holds the step operations of the last handler        *)
(* invocation, so a property of every step operation is an invariant over  *)
(* the entries of calls.                                                   *)

Ops == {calls[i] : i \in 1..Len(calls)}

\* The input the step operation treats as provided: step 1 takes any map,
\* the later steps a non-empty one
InputProvided(c) == IF c.step = 1 THEN c.input.given ELSE Provided(c.input)

Rejected(c) == InputProvided(c) /\ c.ret = "not_advanced"

ErrorKinds(c) == {c.errors[k] : k \in DOMAIN c.errors}

\* The step the fixed graph puts after step 1 for a record
StepAfterStep1(d) ==
    IF frequency(d) \in ANNUAL_GROUP_FREQUENCY THEN 2
    ELSE IF frequency(d) \in DAILY_BLANK_FREQUENCY THEN 4
    ELSE 3

\* C1: in both drivers, when step 1 advances the step invoked next is step 2
\* for an annual/group frequency of the record, step 4 for a daily/blank one
\* and step 3 for every other one.
C1_NextStepByFrequency ==
    \A i \in 1..Len(calls) :
        (calls[i].step = 1 /\ calls[i].ret = "advanced") =>
            /\ i < Len(calls)
            /\ calls[i + 1].step = StepAfterStep1(calls[i].after.data)

\* C1 witness: the edit driver's step 1 advanced on a daily/blank frequency
\* and step 4 was invoked next.
C1_Witness ==
    /\ flow = "options"
    /\ Len(calls) = 2
    /\ calls[1].step = 1 /\ calls[1].ret = "advanced"
    /\ frequency(calls[1].after.data) \in DAILY_BLANK_FREQUENCY
    /\ calls[2].step = 4

\* C2: when step 4 advances in a monthly-like session whose record holds the
\* step-3 toggle, the record afterwards holds exactly the ordinal field the
\* toggle selects (week_order_number when true, weekday_order_number when
\* false), and neither the other ordinal field nor the toggle.
C2_ExactlyOneOrdinalField ==
    \A c \in Ops :
        (/\ c.step = 4 /\ c.ret = "advanced"
         /\ frequency(c.before.data) \in MONTHLY_FREQUENCY
         /\ CONF_FORCE_WEEK_NUMBERS \in DOMAIN c.before.data) =>
            LET kept == Step4Prefix(c.before.data)
            IN DOMAIN c.after.data \cap
                   {CONF_WEEK_ORDER_NUMBER, CONF_WEEKDAY_ORDER_NUMBER,
                    CONF_FORCE_WEEK_NUMBERS} = {kept}

\* C3: once step 1 has stored the frequency, no call of step 2, 3 or 4
\* changes the record's frequency.
C3_FrequencyNeverChanges ==
    \A c \in Ops :
        (c.step \in {2, 3, 4} /\ CONF_FREQUENCY \in DOMAIN c.before.data) =>
            /\ CONF_FREQUENCY \in DOMAIN c.after.data
            /\ c.after.data[CONF_FREQUENCY] = c.before.data[CONF_FREQUENCY]

\* C4: a step operation that does not return "advanced" leaves the record
\* (the field map and the name) exactly as it was before the call.
C4_NoPartialCommit ==
    \A c \in Ops : c.ret # "advanced" => c.after = c.before

\* C4 witness: step 4 rejected provided input of a session whose record
\* already holds the fields of steps 1 and 3.
C4_Witness ==
    \E c \in Ops :
        /\ c.step = 4 /\ Rejected(c)
        /\ CONF_COLLECTION_DAYS \in DOMAIN c.before.data
        /\ c.after = c.before

\* C5: for a step operation called with provided input, "advanced" comes
\* with an empty error map, and a rejection comes as "not advanced" with
\* exactly one error, under the key "base".
C5_AdvancedIffNoError ==
    \A c \in Ops :
        InputProvided(c) =>
            /\ c.ret = "advanced" => c.errors = EmptyMap
            /\ c.ret = "not_advanced" => DOMAIN c.errors = {"base"}
            /\ c.errors # EmptyMap => c.ret = "not_advanced"

\* C5 witness: step 2 rejected a provided month/day with one "base" error.
C5_Witness ==
    \E c \in Ops :
        /\ c.step = 2 /\ Rejected(c)
        /\ c.errors = BaseError("month_day")

\* C6: a step operation (step 1 included) called with absent or empty input
\* and with defaults validates nothing, leaves the record alone, populates
\* default storage from the defaults and returns "not advanced".
C6_AbsentInputOnlyShowsForm ==
    \A c \in Ops :
        (c.dflt /\ (~c.input.given \/ c.input.m = EmptyMap)) =>
            /\ c.ret \in {"not_advanced", "raised"}
            /\ ~c.validated
            /\ c.after = c.before
            /\ c.ret = "not_advanced" =>
                  \A k \in DOMAIN c.dfltm :
                      (k \in OptionKeys /\ OptionStep(k) = c.step) =>
                          k \in DOMAIN c.defaults

\* What the re-shown form carries for field k is what was submitted for it
\* (as typed, or as the step transcoded it)
ShowsSubmitted(c, k) ==
    \/ c.schema[k] = c.input.m[k]
    \/ k \in DOMAIN c.used /\ c.schema[k] = c.used[k]

\* C7: in every step, when provided input is rejected the form shown again
\* carries the rejected values as its defaults.
C7_RejectedInputBecomesDefaults ==
    \A c \in Ops :
        Rejected(c) =>
            \A k \in DOMAIN c.schema \cap DOMAIN c.input.m : ShowsSubmitted(c, k)

\* The error kinds of each step in the taxonomy
TaxonomyKinds(step) ==
    IF step = 1 THEN {"date", "icon", "time", "value"}
    ELSE IF step = 2 THEN {"month_day", "entities"}
    ELSE IF step = 3 THEN {"days"}
    ELSE {CONF_WEEK_ORDER_NUMBER, CONF_WEEKDAY_ORDER_NUMBER, "value"}

\* C8 as stated: every error kind a step reports is in that step's set of
\* the taxonomy, which for step 3 is "days" alone.
C8_ErrorKindInTaxonomy ==
    \A c \in Ops : ErrorKinds(c) \subseteq TaxonomyKinds(c.step)

\* C8 as amended: the same, with step 3 reporting "days" or "value".
C8_ErrorKindInTaxonomyOrValue ==
    \A c \in Ops :
        ErrorKinds(c) \subseteq
            (TaxonomyKinds(c.step) \cup (IF c.step = 3 THEN {"value"} ELSE {}))

\* C8 witness: step 3 reported "value" (a toggle that is no boolean, or a
\* day list naming no weekday).
C8_Witness ==
    \E c \in Ops : c.step = 3 /\ Rejected(c) /\ c.errors = BaseError("value")

DateFields == {CONF_INCLUDE_DATES, CONF_EXCLUDE_DATES, CONF_FIRST_DATE}
IconFields == {CONF_ICON_NORMAL, CONF_ICON_TODAY, CONF_ICON_TOMORROW}

\* The date lists of a step-1 input that are malformed
MalformedDates(c) ==
    {k \in {CONF_INCLUDE_DATES, CONF_EXCLUDE_DATES} \cap DOMAIN c.used :
        ~is_dates(c.used[k])}

\* The fixed classification order of step 1 over the fields a failure names
ByOrder(c) ==
    c.errors = BaseError(
        IF c.named \cap DateFields # {} THEN "date"
        ELSE IF c.named \cap IconFields # {} THEN "icon"
        ELSE IF CONF_EXPIRE_AFTER \in c.named THEN "time"
        ELSE "value")

\* C9 as stated: step 1 submitted with a malformed date list does not
\* advance and reports "date"; and a rejection is classified in the fixed
\* order date, icon, time, value over the fields the failure names.
C9_MalformedDatesReportDate ==
    \A c \in Ops :
        (c.step = 1 /\ c.input.given) =>
            /\ MalformedDates(c) # {} =>
                  c.ret = "not_advanced" /\ c.errors = BaseError("date")
            /\ c.ret = "not_advanced" => ByOrder(c)

\* C9 as amended: step 1 submitted with a malformed date list does not
\* advance, and reports "date" when the failure names a date field, as it
\* does when no other field is malformed; the classification order is the
\* stated one.
C9_MalformedDatesRejectedInOrder ==
    \A c \in Ops :
        (c.step = 1 /\ c.input.given) =>
            /\ MalformedDates(c) # {} =>
                  /\ c.ret = "not_advanced"
                  /\ (c.named \cap DateFields # {} \/ Step1Failing(c.input,
                          IF c.dflt THEN Given(c.dfltm) ELSE NotGiven)
                              \subseteq DateFields)
                        => c.errors = BaseError("date")
            /\ c.ret = "not_advanced" => ByOrder(c)

\* C9 witness: a step-1 failure naming a date field and an icon field was
\* reported as "date".
C9_Witness ==
    \E c \in Ops :
        /\ c.step = 1 /\ c.ret = "not_advanced"
        /\ c.named \cap DateFields # {} /\ c.named \cap IconFields # {}
        /\ c.errors = BaseError("date")

\* C10: a rejection by step 2 reports "month_day" for an annual-like
\* frequency and "entities" for a group-like one; when step 2 advances for
\* a group-like frequency the record's entities are the list the submitted
\* text transcodes to.
C10_Step2KindsAndEntitiesList ==
    \A c \in Ops :
        c.step = 2 =>
            /\ Rejected(c) =>
                  \/ /\ frequency(c.before.data) \in ANNUAL_FREQUENCY
                     /\ c.errors = BaseError("month_day")
                  \/ /\ frequency(c.before.data) \in GROUP_FREQUENCY
                     /\ c.errors = BaseError("entities")
            /\ (c.ret = "advanced" /\ frequency(c.before.data) \in GROUP_FREQUENCY) =>
                  /\ CONF_ENTITIES \in DOMAIN c.after.data
                  /\ c.after.data[CONF_ENTITIES].t = "list"
                  /\ c.after.data[CONF_ENTITIES] =
                         string_to_list(c.input.m[CONF_ENTITIES])

\* C10 witness: step 2 advanced for a group and stored a list of two
\* entities typed as comma text.
C10_Witness ==
    \E c \in Ops :
        /\ c.step = 2 /\ c.ret = "advanced"
        /\ frequency(c.before.data) \in GROUP_FREQUENCY
        /\ c.input.m[CONF_ENTITIES].t = "str"
        /\ c.after.data[CONF_ENTITIES] = Lst(<< <<"sensor.a">>, <<"sensor.b">> >>)

\* Step 3 has advanced in the session
Step3Advanced == \E i \in 1..Len(advanced) : advanced[i].step = 3

\* The day list step 3 transcoded its input to is empty
EmptyDayList(c) ==
    /\ CONF_COLLECTION_DAYS \in DOMAIN c.used
    /\ c.used[CONF_COLLECTION_DAYS].t \in {"list", "str"}
    /\ c.used[CONF_COLLECTION_DAYS].v = <<>>

\* C11: step 3 rejects provided input whose transcoded day list is empty
\* with the kind "days" and does not advance, and once step 3 has advanced
\* the record's collection_days is a non-empty list in every later state.
C11_DaysNeverEmptyAfterStep3 ==
    /\ \A c \in Ops :
          (c.step = 3 /\ Provided(c.input) /\ c.validated /\ EmptyDayList(c)) =>
              c.ret = "not_advanced" /\ c.errors = BaseError("days")
    /\ Step3Advanced =>
          /\ CONF_COLLECTION_DAYS \in DOMAIN data
          /\ data[CONF_COLLECTION_DAYS].t = "list"
          /\ data[CONF_COLLECTION_DAYS].v # <<>>

\* C12: in a monthly-like session step 4 rejects provided input whose
\* ordinal list for the field the step-3 toggle selects is empty, reporting
\* the name of that field as the error kind; and when step 4 advances the
\* record holds a non-empty list under that field.
C12_OrdinalListNeverEmpty ==
    \A c \in Ops :
        (/\ c.step = 4 /\ Provided(c.input) /\ c.ret # "raised"
         /\ frequency(c.before.data) \in MONTHLY_FREQUENCY) =>
            LET chosen == Step4Prefix(c.before.data)
            IN /\ c.used[chosen].v = <<>> =>
                      c.ret = "not_advanced" /\ c.errors = BaseError(chosen)
               /\ c.ret = "advanced" =>
                      /\ chosen \in DOMAIN c.after.data
                      /\ c.after.data[chosen].t = "list"
                      /\ c.after.data[chosen].v # <<>>

\* The steps that advanced in the session, in order
Path == [i \in 1..Len(advanced) |-> advanced[i].step]

\* The frequency step 1 fixed for the session
SessionFrequency == advanced[1].frequency

\* The path of the fixed graph for a frequency
GraphPath(f) ==
    IF f \in ANNUAL_GROUP_FREQUENCY THEN <<1, 2>>
    ELSE IF f \in DAILY_BLANK_FREQUENCY THEN <<1, 4>>
    ELSE <<1, 3, 4>>

\* C13: in both drivers an entry is created only when the terminal step
\* (2 or 4) has advanced, and the steps that advanced before are the path
\* of the graph for the frequency step 1 fixed: 1,2 for annual/group, 1,4
\* for daily/blank, 1,3,4 otherwise; a session that step 1 made
\* annual/group never invokes step 3 or 4, and a session that is not
\* daily/blank invokes step 4 only after step 3 has advanced.
C13_EntryOnlyAtEndOfGraphPath ==
    /\ entry.created =>
          /\ pc = "created"
          /\ calls # <<>>
          /\ calls[Len(calls)].step \in {2, 4}
          /\ calls[Len(calls)].ret = "advanced"
          /\ Path = GraphPath(SessionFrequency)
    /\ pc = "created" => entry.created
    /\ \A i \in 1..Len(calls) :
          calls[i].step \in {2, 3, 4} =>
              /\ advanced # <<>> /\ advanced[1].step = 1
              /\ SessionFrequency \in ANNUAL_GROUP_FREQUENCY <=> calls[i].step = 2
              /\ (calls[i].step = 4 /\ SessionFrequency \notin DAILY_BLANK_FREQUENCY) =>
                    \/ \E j \in 1..(i - 1) :
                          calls[j].step = 3 /\ calls[j].ret = "advanced"
                    \/ /\ \A j \in 1..(i - 1) : calls[j].step = 4
                       /\ \E k \in 1..Len(advanced) :
                             /\ advanced[k].step = 3
                             /\ \A l \in 1..k : advanced[l].step # 4

\* C13 witness: the edit driver created an entry after steps 1, 3 and 4
\* advanced in three handler invocations.
C13_Witness ==
    /\ flow = "options"
    /\ entry.created
    /\ Path = <<1, 3, 4>>
    /\ Len(calls) = 1

\* C14: the record's field map holds no name after any step operation
\* returns; the entry the initial-setup driver creates has the name step 1
\* stored as its title, and the entry the edit driver creates has the empty
\* title.
C14_NameApartAndTitle ==
    /\ \A c \in Ops : CONF_NAME \notin DOMAIN c.after.data
    /\ entry.created =>
          /\ CONF_NAME \notin DOMAIN entry.data
          /\ flow = "config" => entry.title = advanced[1].name
          /\ flow = "options" => entry.title = Str(<<>>)

\* The controller of the session as constructed, over cleared storage
ClearedAtStart ==
    [data |-> Field(UNIQUE_ID,
                    IF flow = "config" THEN Str(<<"uuid4">>)
                    ELSE config_entry[UNIQUE_ID]),
     name |-> None, errors |-> EmptyMap, schema |-> EmptyMap,
     defaults |-> reset_defaults, calls |-> <<>>]

\* What the first handler invocation of the session leaves when storage is
\* cleared at the start of the session
FirstOverCleared ==
    IF flow = "config"
    THEN ConfigUser(ClearedAtStart, calls[1].input, import_, calls[1].named)
    ELSE OptionsInit(ClearedAtStart, calls[1].input, config_entry, calls[1].named)

Forms == {"user", "init", "annual_group", "detail", "final"}

\* C15: a session, initial setup or edit, starts by clearing the default
\* storage before it sets a default or compiles a display schema, so the
\* first form it shows is the form it shows over cleared storage.
C15_FirstFormOverClearedStorage ==
    /\ (handled = 0 /\ flow = "config") => defaults = reset_defaults
    /\ (handled = 1 /\ pc \in Forms) =>
          /\ data_schema = FirstOverCleared.s.schema
          /\ defaults = FirstOverCleared.s.defaults

\* C16: after a step advances, the record holds no value for a field of
\* that step that the accepted input omitted or gave as the empty string,
\* and no value for a field that does not apply to the frequency of the
\* record.
C16_NoStaleFields ==
    \A c \in Ops :
        c.ret = "advanced" =>
            /\ \A k \in OptionKeys :
                  (/\ OptionStep(k) = c.step
                   /\ (k \notin DOMAIN c.used \/ c.used[k] = Str(<<>>))) =>
                      k \notin DOMAIN c.after.data
            /\ \A k \in DOMAIN c.after.data \cap OptionKeys :
                  frequency(c.after.data) \in OptionValidFor(k)

\* The fields step 4 may delete: the step-3 toggle and the ordinal field
\* the toggle does not select
Step4MayDelete(d) ==
    IF CONF_FORCE_WEEK_NUMBERS \in DOMAIN d
    THEN {CONF_FORCE_WEEK_NUMBERS, CONF_WEEK_ORDER_NUMBER,
          CONF_WEEKDAY_ORDER_NUMBER} \ {Step4Prefix(d)}
    ELSE {}

\* C17: steps 2, 3 and 4 leave every field the record already holds as it
\* is (unique_id and the step-1 fields among them), except that step 4 may
\* delete the step-3 toggle and the unused ordinal field.
C17_RecordGrowsMonotonically ==
    \A c \in Ops :
        c.step \in {2, 3, 4} =>
            \A k \in DOMAIN c.before.data \
                      (IF c.step = 4 THEN Step4MayDelete(c.before.data) ELSE {}) :
                /\ k \in DOMAIN c.after.data
                /\ c.after.data[k] = c.before.data[k]

\* C18: a step operation called with provided input returns "advanced" or
\* "not advanced" (with a classified error); it never ends in an exception
\* that leaves the operation.
C18_NoFailurePastStepBoundary ==
    \A c \in Ops :
        InputProvided(c) =>
            /\ c.ret \in {"advanced", "not_advanced"}
            /\ c.ret = "not_advanced" => c.errors # EmptyMap

\* The form of each step in the initial-setup driver
FormOf(step) ==
    IF step = 1 THEN "user" ELSE IF step = 2 THEN "annual_group"
    ELSE IF step = 3 THEN "detail" ELSE "final"

\* The state is the one async_step_import left
Imported == flow = "config" /\ handled = 1 /\ import_ # EmptyMap

\* C19: async_step_import feeds the imported map to step 1 and to every
\* later step on its path, and ends either with the entry created and no
\* form shown, when every step accepted the map, or with the form of the one
\* step that rejected it, with that step's error and no entry.
C19_ImportRunsWholePath ==
    Imported =>
        /\ calls # <<>>
        /\ Step1Input(calls[1].input.m) = import_
        /\ \A i \in 2..Len(calls) : calls[i].input = Given(import_)
        /\ \A i \in 1..(Len(calls) - 1) : calls[i].ret = "advanced"
        /\ \/ /\ \A i \in 1..Len(calls) : calls[i].ret = "advanced"
              /\ pc = "created" /\ entry.created
           \/ /\ calls[Len(calls)].ret = "not_advanced"
              /\ pc = FormOf(calls[Len(calls)].step)
              /\ errors # EmptyMap /\ errors = calls[Len(calls)].errors
              /\ ~entry.created

\* C20: whatever operations of another session interleave, the record, the
\* name, the error map, the result of every step operation, the form shown
\* and the entry created are those of the session run alone; the default
\* storage and the defaults in the display schema are all that can differ.
C20_SessionsShareOnlyDefaults ==
    /\ data = solo.data
    /\ name = solo.name
    /\ errors = solo.errors
    /\ Results(calls) = solo.results
    /\ pc = solo.pc
    /\ entry = solo.entry
    /\ DOMAIN data_schema = DOMAIN solo.schema

\* C20 witness: an operation of another session interleaved, and the
\* session then had input rejected and showed a form whose defaults are
\* not those of the session run alone.
C20_Witness ==
    /\ others > 0
    /\ \E c \in Ops : Rejected(c)
    /\ data_schema # solo.schema

\* The items of a transcoder call and the flag key of each item
Items == IF transcoding.fn = "days_to_list" THEN WEEKDAYS ELSE <<1, 2, 3, 4, 5>>

FlagKey(i) ==
    IF transcoding.fn = "days_to_list" THEN DayKey(WEEKDAYS[i])
    ELSE OrdKey(transcoding.prefix, i)

FlagKeys == {FlagKey(i) : i \in 1..Len(Items)}

\* The position of an item in the fixed order
Position(x) == CHOOSE i \in 1..Len(Items) : Items[i] = x

\* C21: after days_to_list or weekdays_to_list ran on a map that holds every
\* flag and not the list, the list holds exactly the items whose flag is
\* true, in the fixed order (weekday order, ascending ordinals), no flag key
\* is left and every other field is as it was; on a map that holds the list
\* already the call changes nothing.
C21_FlagsBecomeOrderedList ==
    transcoding.done =>
        LET src == transcoding.input
            out == transcoding.output
            key == transcoding.prefix
        IN IF key \in DOMAIN src THEN out = src
           ELSE /\ DOMAIN out = (DOMAIN src \ FlagKeys) \cup {key}
                /\ \A k \in DOMAIN src \ FlagKeys : out[k] = src[k]
                /\ out[key].t = "list"
                /\ \A i \in 1..Len(Items) :
                      src[FlagKey(i)].v <=>
                          \E j \in 1..Len(out[key].v) : out[key].v[j] = Items[i]
                /\ \A j \in 1..Len(out[key].v) :
                      \E i \in 1..Len(Items) : out[key].v[j] = Items[i]
                /\ \A j \in 1..(Len(out[key].v) - 1) :
                      Position(out[key].v[j]) < Position(out[key].v[j + 1])

\* C21 witness: weekdays_to_list ran on the flags 1, 3 and 5 of
\* week_order_number and left the list 1, 3, 5 and no flag.
C21_Witness ==
    /\ transcoding.done
    /\ transcoding.fn = "weekdays_to_list"
    /\ transcoding.input = OrdFlags(CONF_WEEK_ORDER_NUMBER, {1, 3, 5})
    /\ transcoding.output = Field(CONF_WEEK_ORDER_NUMBER, Lst(<<1, 3, 5>>))

\* The step a form belongs to
StepOfForm(f) ==
    IF f \in {"user", "init"} THEN 1 ELSE IF f = "annual_group" THEN 2
    ELSE IF f = "detail" THEN 3 ELSE 4

\* The steps that had advanced when the last handler was invoked
AdvancedBefore ==
    SubSeq(Path, 1, Len(Path) - Len(AdvancedSteps(calls)))

\* C22 (order): the handler invoked on a form runs that form's step first
\* and then only later steps; no step it runs is a step that has advanced
\* before, or an earlier one; a step that rejects its input leaves its own
\* form; and no session has more than three advancing steps.
C22_NeverBackwards ==
    /\ \A i \in 1..Len(calls) :
          /\ \A j \in 1..Len(AdvancedBefore) : AdvancedBefore[j] < calls[i].step
          /\ \A j \in 1..(i - 1) : calls[j].step < calls[i].step
    /\ (calls # <<>> /\ answered \in Forms) => calls[1].step = StepOfForm(answered)
    /\ (calls # <<>> /\ answered = "start") => calls[1].step = 1
    /\ (calls # <<>> /\ calls[Len(calls)].ret = "not_advanced") =>
          pc \in Forms /\ StepOfForm(pc) = calls[Len(calls)].step
    /\ Len(advanced) <= 3

\* Every input the last handler invocation handed to a step was accepted
AllAccepted ==
    /\ calls # <<>>
    /\ calls[1].ret = "advanced"
    /\ \A i \in 2..Len(calls) : Provided(calls[i].input) => calls[i].ret = "advanced"

\* C22: a session never moves backwards in the step graph, and a handler
\* invocation whose input was accepted ends with the entry created or with
\* the form of a later step, so that a session whose forms are all answered
\* with accepted input hands off an entry after at most three advancing
\* steps.
C22_ForwardToEntry ==
    /\ C22_NeverBackwards
    /\ AllAccepted =>
          \/ pc = "created" /\ entry.created
          \/ pc \in Forms /\ StepOfForm(pc) > calls[1].step

====
